---- MODULE Spec2Model ----
(***************************************************************************)
(* dbl-chat-cli: the response correlation and delivery engine of          *)
(* ChatClient (client.py) on top of GatewayAPI (gateway_api.py), and the  *)
(* submission of turns by repl_loop (repl.py) under main (__main__.py).   *)
(*                                                                         *)
(* JSON values are tagged records, so that the isinstance() tests and the *)
(* dict.get() calls of the code are modelled by what they do.             *)
(* Delays are counted in ticks of 1/128 second: every delay the code can  *)
(* compute is a whole number of ticks (see DelayExact).                   *)
(***************************************************************************)
EXTENDS Integers, Sequences, FiniteSets, TLC

(***************************************************************************)
(* Bounds of the model.                                                    *)
(***************************************************************************)
\* longest gateway event log explored
MaxLog == 2
\* most turns the operator submits
MaxTurns == 2
\* largest integer event index the gateway puts in an event
MaxIndex == 1

(***************************************************************************)
(* Program constants (ticks of 1/128 s for the delays).                    *)
(***************************************************************************)
\* delay = 0.5
InitialDelay == 64
\* min(delay * 1.5, 5.0)
NoMatchCeiling == 640
\* min(delay * 2, 15.0)
FailureCeiling == 1920
\* if failures >= 5
MaxFailures == 5
\* snapshot(offset=requested, limit=200)
PollLimit == 200
\* snapshot(offset=0, limit=1)
PrimeLimit == 1

(***************************************************************************)
(* JSON values.                                                            *)
(***************************************************************************)
None == [t |-> "none"]
Str(s) == [t |-> "str", s |-> s]
IntV(n) == [t |-> "int", n |-> n]
BoolV(b) == [t |-> "bool", n |-> IF b THEN 1 ELSE 0]
FloatV(n) == [t |-> "float", n |-> n]
Dict(d) == [t |-> "dict", d |-> d]
\* a formatted string: the parts of an f-string, in order
Fmt(parts) == [t |-> "fstr", parts |-> parts]
EmptyMap == [k \in {} |-> None]

\* dict.get(key): None when the key is missing
Get(j, k) == IF k \in DOMAIN j.d THEN j.d[k] ELSE None
\* dict.get(key, default)
GetOr(j, k, default) == IF k \in DOMAIN j.d THEN j.d[k] ELSE default
\* isinstance(x, dict), isinstance(x, str)
IsDict(j) == j.t = "dict"
IsStr(j) == j.t = "str"
\* isinstance(x, int): bool is a subclass of int in Python, float is not
IsInt(j) == j.t \in {"int", "bool"}
\* Python truthiness, as used by `a or b`
Truthy(j) ==
    CASE j.t = "none" -> FALSE
      [] j.t = "str" -> j.s # ""
      [] j.t \in {"int", "bool", "float"} -> j.n # 0
      [] j.t = "dict" -> DOMAIN j.d # {}
      [] OTHER -> TRUE
\* str.strip() on the strings of the model
Strip(s) == IF s \in {"", " ", "  "} THEN "" ELSE s

Max(a, b) == IF a >= b THEN a ELSE b
Min(a, b) == IF a <= b THEN a ELSE b

(***************************************************************************)
(* client.py: the two pure helpers.                                        *)
(***************************************************************************)
\* mutant: the `idx > current` test is dropped
update_last_index_overwrite(current, event) ==
    LET idx == Get(event, "index")
    IN  IF IsInt(idx) THEN idx.n ELSE current

update_last_index(current, event) ==
    LET idx == Get(event, "index")
    IN  IF IsInt(idx) /\ idx.n > current THEN idx.n ELSE current

\* what the EXECUTION branch returns for a dict payload
execution_text(payload) ==
    LET output == Get(payload, "output_text")
        alt_output == IF Truthy(Get(payload, "output"))
                      THEN Get(payload, "output")
                      ELSE Get(payload, "result")
        text == IF IsDict(alt_output) THEN Get(alt_output, "text") ELSE None
        err == Get(payload, "error")
    IN  IF IsStr(output) /\ Strip(output.s) # ""
        THEN output
        ELSE IF IsDict(alt_output) /\ IsStr(text) /\ Strip(text.s) # ""
        THEN text
        ELSE IF IsDict(err)
        THEN Fmt(<<Str("(execution_error) "), GetOr(err, "code", Str("error")),
                   Str(": "), GetOr(err, "message", Str(""))>>)
        ELSE Str("(execution) no output_text")

\* mutant: the decision is returned whatever its value
decision_text_any(payload) == Fmt(<<Str("decision: "), payload>>)

\* what the DECISION branch returns for a dict payload
decision_text(payload) ==
    IF Get(payload, "decision") = Str("DENY")
    THEN Fmt(<<Str("decision: "), payload>>)
    ELSE None

\* mutant: the correlation id test is dropped
extract_response_any_cid(event, correlation_id) ==
    LET kind == Get(event, "kind")
        payload == Get(event, "payload")
    IN  IF kind = Str("EXECUTION") /\ IsDict(payload)
        THEN execution_text(payload)
        ELSE IF kind = Str("DECISION") /\ IsDict(payload)
        THEN decision_text(payload)
        ELSE None

extract_response(event, correlation_id) ==
    IF Get(event, "correlation_id") # correlation_id
    THEN None
    ELSE LET kind == Get(event, "kind")
             payload == Get(event, "payload")
         IN  IF kind = Str("EXECUTION") /\ IsDict(payload)
             THEN execution_text(payload)
             ELSE IF kind = Str("DECISION") /\ IsDict(payload)
             THEN decision_text(payload)
             ELSE None

(***************************************************************************)
(* The events the gateway may hold.  An event is a JSON object; a key may  *)
(* be missing.                                                             *)
(***************************************************************************)
\* a dict from a set of <<key, value>> pairs, dropping the keys whose value is "missing"
Missing == [t |-> "missing"]
Obj(pairs) ==
    LET keys == {p[1] : p \in {q \in pairs : q[2] # Missing}}
    IN  Dict([k \in keys |-> (CHOOSE p \in pairs : p[1] = k)[2]])

Event(index, cid, kind, payload) ==
    Obj({<<"index", index>>, <<"correlation_id", cid>>,
         <<"kind", kind>>, <<"payload", payload>>})

\* the correlation ids send_message has minted
CorrelationIds == {Str("c1"), Str("c2")}

\* the terminal event of the spec's scenario A, and an event nothing matches
ExecutionHi == <<Str("EXECUTION"), Obj({<<"output_text", Str("hi")>>})>>
IntentHi == <<Str("INTENT"), Obj({<<"output_text", Str("hi")>>})>>

\* events that differ in their index: integers (repeated and out of order in
\* the log), a missing index, a string, a float, a bool
IndexValues ==
    {IntV(n) : n \in 0..MaxIndex} \cup {Missing, Str("7"), FloatV(MaxIndex + 1), BoolV(TRUE)}
IndexEvents ==
    { Event(i, Str("c1"), kp[1], kp[2]) : i \in IndexValues, kp \in {ExecutionHi, IntentHi} }

\* events that differ in correlation id, kind and payload
MatchCids == CorrelationIds \cup {Missing}
MatchKindPayloads ==
    { ExecutionHi,
      <<Str("EXECUTION"), Obj({<<"error", Obj({<<"code", Str("E1")>>, <<"message", Str("boom")>>})>>})>>,
      <<Str("EXECUTION"), Missing>>,
      <<Str("DECISION"), Obj({<<"decision", Str("DENY")>>})>>,
      <<Str("DECISION"), Obj({<<"decision", Str("ALLOW")>>})>>,
      IntentHi }
MatchEvents ==
    { Event(IntV(0), c, kp[1], kp[2]) : c \in MatchCids, kp \in MatchKindPayloads }

\* the events of the polling scenarios: a terminal event for each
\* correlation id and an event nothing matches, indexed by log position
PollEvents(position) ==
    { Event(IntV(position), c, kp[1], kp[2]) :
        c \in CorrelationIds, kp \in {ExecutionHi, IntentHi} }

(***************************************************************************)
(* State.                                                                  *)
(***************************************************************************)
VARIABLES
    stream,          \* ClientConfig.stream
    caps_tail,       \* Capabilities.surfaces.get("tail", False)
    caps_snapshot,   \* Capabilities.surfaces.get("snapshot", False)
    offset,          \* ChatClient._offset
    last_index,      \* ChatClient._last_index
    log,             \* the gateway's append-only event log
    pc,              \* where the client is
    correlation_id,  \* the argument of the wait_for_response call in progress
    since,           \* _wait_tail: since
    requested,       \* _wait_poll: requested
    scanned,         \* _wait_poll: events of the current page the for loop has taken
    delay,           \* _wait_poll: delay, in ticks
    failures,        \* _wait_poll: failures
    outcome,         \* how the last call ended
    fetched,         \* history: the log positions snapshot answers have carried
    failed_run,      \* history: failed snapshot requests of this call since its
                     \* last answered one (404 answers apart)
    returned,        \* history: the log positions of the events calls returned on
    call_offset,     \* history: _offset when the call in progress began
    thread_id,       \* ChatClient._thread_id
    last_turn_id,    \* ChatClient._last_turn_id
    minted,          \* how many uuid4 values the process has drawn
    posted           \* history: the envelopes handed to post_intent, in order,
                     \* each with how the gateway answered

config == <<stream, caps_tail, caps_snapshot>>
cursor == <<offset, last_index>>
poll_locals == <<requested, scanned, delay, failures>>
history == <<fetched, failed_run, returned, call_offset>>
session == <<thread_id, last_turn_id, minted, posted>>
vars == <<stream, caps_tail, caps_snapshot, offset, last_index, log, pc,
          correlation_id, since, requested, scanned, delay, failures, outcome,
          fetched, failed_run, returned, call_offset, thread_id, last_turn_id,
          minted, posted>>

\* how a call ended: what it returned or raised, for which correlation id,
\* from which event, and after how many failed requests in a row
NoOutcome ==
    [kind |-> "none", value |-> None, cid |-> None, event |-> None, failed |-> 0]
Returned(value, cid, event) ==
    [kind |-> "return", value |-> value, cid |-> cid, event |-> event, failed |-> 0]
Raised(what, cid, failed) ==
    [kind |-> "raise", value |-> Str(what), cid |-> cid, event |-> None,
     failed |-> failed]
Cancelled(cid) ==
    [kind |-> "cancelled", value |-> None, cid |-> cid, event |-> None, failed |-> 0]

\* the states in which a wait_for_response call is in progress
InCall == {"tail_open", "tail", "poll_request", "poll_scan", "poll_sleep"}

\* uuid.uuid4(): the n-th value the process draws; no two draws are equal
Uuids == <<"u1", "u2", "u3", "u4", "u5", "u6", "u7", "u8", "u9">>
Uuid(n) == Str(Uuids[n])

Init ==
    /\ stream \in BOOLEAN
    /\ caps_tail \in BOOLEAN
    /\ caps_snapshot \in BOOLEAN
    /\ offset = 0
    /\ last_index = -1
    /\ log = <<>>
    /\ pc = "start"
    /\ correlation_id = None
    /\ since = -1
    /\ requested = 0
    /\ scanned = 0
    /\ delay = 0
    /\ failures = 0
    /\ outcome = NoOutcome
    /\ fetched = {}
    /\ failed_run = 0
    /\ returned = {}
    /\ call_offset = 0
    /\ thread_id = Uuid(1)
    /\ last_turn_id = None
    /\ minted = 1
    /\ posted = <<>>

(***************************************************************************)
(* The gateway.                                                            *)
(***************************************************************************)
\* the gateway appends an event to its log
GatewayAppend(e) ==
    /\ Len(log) < MaxLog
    /\ log' = Append(log, e)
    /\ UNCHANGED <<config, session, cursor, pc, correlation_id, since, poll_locals, outcome,
                   history>>

\* GET /snapshot?offset&limit on a 2xx answer: {length, events}
snapshot(off, limit) ==
    [length |-> Len(log),
     events |-> SubSeq(log, off + 1, Min(off + limit, Len(log)))]

\* how a GET /snapshot can end: a 2xx answer, a 404, another non-2xx status
\* (raise_for_status), or no answer at all (httpx.TransportError)
SnapshotAnswers == {"ok", "http_404", "http_status", "transport_error"}

(***************************************************************************)
(* ChatClient.                                                             *)
(***************************************************************************)
\* a call ends: the locals are gone
EndCall(o) ==
    /\ pc' = "idle"
    /\ outcome' = o
    /\ correlation_id' = None
    /\ since' = -1
    /\ requested' = 0
    /\ scanned' = 0
    /\ delay' = 0
    /\ failures' = 0
    /\ failed_run' = 0
    /\ call_offset' = 0

\* the log positions an answered snapshot request carries
positions(off, events) == (off + 1)..(off + Len(events))

prime_offsets(answer) ==
    /\ pc = "start"
    /\ IF ~caps_snapshot
       THEN /\ pc' = "idle"
            /\ UNCHANGED <<cursor, fetched>>
       ELSE IF answer = "ok"
       THEN LET snap == snapshot(0, PrimeLimit)
                events == snap.events
                idx == Get(events[Len(events)], "index")
            IN  /\ offset' = Max(0, snap.length)
                /\ last_index' = IF events # <<>> /\ IsInt(idx) THEN idx.n ELSE last_index
                /\ fetched' = fetched \cup positions(0, events)
                /\ pc' = "idle"
       ELSE \* the exception leaves main through its finally: the session is over
            /\ pc' = "closed"
            /\ UNCHANGED <<cursor, fetched>>
    /\ UNCHANGED <<config, session, log, correlation_id, since, poll_locals, outcome, failed_run,
                   returned, call_offset>>

\* mutant: the snapshot surface is tried first
select_mode_snapshot_first ==
    IF caps_snapshot THEN "poll"
    ELSE IF stream /\ caps_tail THEN "tail"
    ELSE "none"

\* which read surface wait_for_response uses
select_mode ==
    IF stream /\ caps_tail THEN "tail"
    ELSE IF caps_snapshot THEN "poll"
    ELSE "none"

\* mutant: every tail request asks for the whole stream again
tail_since_restart(li) == -1

\* since = max(self._last_index, -1)
tail_since(li) == Max(li, -1)

wait_for_response(cid) ==
    /\ pc \in {"start", "idle", "sent"}
    /\ CASE select_mode = "tail" ->
              /\ pc' = "tail_open"
              /\ since' = tail_since(last_index)
              /\ correlation_id' = cid
              /\ outcome' = NoOutcome
              /\ call_offset' = offset
              /\ UNCHANGED <<poll_locals, failed_run>>
         [] select_mode = "poll" ->
              /\ pc' = "poll_request"
              /\ delay' = InitialDelay
              /\ failures' = 0
              /\ correlation_id' = cid
              /\ outcome' = NoOutcome
              /\ call_offset' = offset
              /\ UNCHANGED <<since, requested, scanned, failed_run>>
         [] OTHER ->
              EndCall(Raised("no supported read surface", cid, 0))
    /\ UNCHANGED <<config, session, cursor, log, fetched, returned>>

(***************************************************************************)
(* _wait_tail.                                                             *)
(***************************************************************************)
\* GET /tail?since: the gateway streams the events above `since`, at least
\* once and in any order; it cannot place an event that has no integer index
tail_delivers(e, s) ==
    LET idx == Get(e, "index")
    IN  IsInt(idx) => idx.n > s

\* the first next() of the generator: the request and raise_for_status
tail_open(answer) ==
    /\ pc = "tail_open"
    /\ IF answer = "ok"
       THEN /\ pc' = "tail"
            /\ UNCHANGED <<correlation_id, since, poll_locals, outcome, failed_run,
                           call_offset>>
       ELSE EndCall(Raised("httpx.HTTPError", correlation_id, 0))
    /\ UNCHANGED <<config, session, cursor, log, fetched, returned>>

\* one event arrives on the stream: the body of the for loop
tail_event(k) ==
    /\ pc = "tail"
    /\ k \in 1..Len(log)
    /\ tail_delivers(log[k], since)
    /\ LET event == log[k]
           content == extract_response(event, correlation_id)
       IN  /\ last_index' = update_last_index(last_index, event)
           /\ IF content # None
              THEN /\ EndCall(Returned(content, correlation_id, event))
                   /\ returned' = returned \cup {k}
              ELSE UNCHANGED <<pc, correlation_id, since, poll_locals, outcome,
                               failed_run, returned, call_offset>>
    /\ UNCHANGED <<config, session, offset, log, fetched>>

\* the stream ends: return None
tail_end ==
    /\ pc = "tail"
    /\ EndCall(Returned(None, correlation_id, None))
    /\ UNCHANGED <<config, session, cursor, log, fetched, returned>>

\* the connection breaks or the read times out while iterating
tail_error ==
    /\ pc = "tail"
    /\ EndCall(Raised("httpx.HTTPError", correlation_id, 0))
    /\ UNCHANGED <<config, session, cursor, log, fetched, returned>>

\* the blocks of the stream whose data lines are not one JSON object: text
\* json.loads rejects, and JSON of another type (a list, a number, a string,
\* null)
TailBlocks == {"invalid_json", "not_an_object"}

\* such a block arrives: json.loads raises and the generator goes on to the
\* next block, or it yields the value and the first event.get of the for
\* loop raises AttributeError
tail_block(b) ==
    /\ pc = "tail"
    /\ IF b = "invalid_json"
       THEN UNCHANGED <<pc, correlation_id, since, poll_locals, outcome, failed_run,
                        call_offset>>
       ELSE EndCall(Raised("AttributeError", correlation_id, 0))
    /\ UNCHANGED <<config, session, cursor, log, fetched, returned>>

(***************************************************************************)
(* _wait_poll.                                                             *)
(***************************************************************************)
\* mutant: the offset moves by one page slot, not by the events returned
next_offset_by_one(req, events) == req + 1

\* self._offset = requested + len(events)
next_offset(req, events) == req + Len(events)

\* delay = min(delay * 1.5, 5.0)
no_match_delay(d) == Min((3 * d) \div 2, NoMatchCeiling)

\* delay = min(delay * 2, 15.0)
failure_delay(d) == Min(2 * d, FailureCeiling)

\* except httpx.HTTPStatusError: is the exception caught by the loop?
caught(answer) == answer \in {"http_404", "http_status"}

\* mutant: a 404 is counted like any other status error
is_404_never(answer) == FALSE

\* exc.response.status_code == 404
is_404(answer) == answer = "http_404"

\* the page the for loop is walking
page == SubSeq(log, requested + 1, offset)

\* the try block up to the for loop, and the except clause
poll_request(answer) ==
    /\ pc = "poll_request"
    /\ IF answer = "ok"
       THEN LET events == snapshot(offset, PollLimit).events
            IN  /\ requested' = offset
                /\ offset' = next_offset(offset, events)
                /\ scanned' = 0
                /\ pc' = "poll_scan"
                /\ fetched' = fetched \cup positions(offset, events)
                /\ failed_run' = 0
                /\ UNCHANGED <<correlation_id, since, delay, failures, outcome,
                               call_offset>>
       ELSE IF ~caught(answer)
       THEN /\ EndCall(Raised("httpx.TransportError", correlation_id, failed_run + 1))
            /\ UNCHANGED <<offset, fetched>>
       ELSE IF is_404(answer)
       THEN /\ EndCall(Raised("snapshot not supported", correlation_id, failed_run))
            /\ UNCHANGED <<offset, fetched>>
       ELSE IF failures + 1 >= MaxFailures
       THEN /\ EndCall(Raised("polling failed", correlation_id, failed_run + 1))
            /\ UNCHANGED <<offset, fetched>>
       ELSE /\ failures' = failures + 1
            /\ delay' = failure_delay(delay)
            /\ pc' = "poll_sleep"
            /\ failed_run' = failed_run + 1
            /\ UNCHANGED <<offset, fetched, correlation_id, since, requested, scanned,
                           outcome, call_offset>>
    /\ UNCHANGED <<config, session, last_index, log, returned>>

\* one turn of `for event in events`
poll_scan_event ==
    /\ pc = "poll_scan"
    /\ scanned < Len(page)
    /\ LET event == page[scanned + 1]
           content == extract_response(event, correlation_id)
       IN  /\ last_index' = update_last_index(last_index, event)
           /\ IF content # None
              THEN /\ EndCall(Returned(content, correlation_id, event))
                   /\ returned' = returned \cup {requested + scanned + 1}
              ELSE /\ scanned' = scanned + 1
                   /\ UNCHANGED <<pc, correlation_id, since, requested, delay,
                                  failures, outcome, failed_run, returned,
                                  call_offset>>
    /\ UNCHANGED <<config, session, offset, log, fetched>>

\* the for loop ran out without a match
poll_page_done ==
    /\ pc = "poll_scan"
    /\ scanned = Len(page)
    /\ failures' = 0
    /\ delay' = no_match_delay(delay)
    /\ pc' = "poll_sleep"
    /\ UNCHANGED <<config, session, cursor, log, correlation_id, since, requested, scanned,
                   outcome, history>>

\* time.sleep(delay)
poll_sleep ==
    /\ pc = "poll_sleep"
    /\ pc' = "poll_request"
    /\ UNCHANGED <<config, session, cursor, log, correlation_id, since, poll_locals, outcome,
                   history>>

\* KeyboardInterrupt while the call is in progress (repl_loop catches it)
cancel ==
    /\ pc \in InCall
    /\ EndCall(Cancelled(correlation_id))
    /\ UNCHANGED <<config, session, cursor, log, fetched, returned>>

(***************************************************************************)
(* send_message, and repl_loop around it.                                  *)
(***************************************************************************)
\* how a POST /ingress/intent can end: a 2xx answer, a non-2xx status
\* (raise_for_status), or no answer at all (httpx.TransportError)
PostAnswers == {"ok", "http_status", "transport_error"}

\* what the operator types
Messages == {Str("hello")}

\* mutant: the turn becomes the next parent only when the gateway took it
record_last_turn_on_ack(turn_id, answer) ==
    IF answer = "ok" THEN turn_id ELSE last_turn_id

\* self._last_turn_id = turn_id, before post_intent is called
record_last_turn(turn_id, answer) == turn_id

\* mutant: repl_loop waits for the response whatever send_message did
repl_after_send_waits(answer) == "sent"

\* repl_loop after send_message: on to wait_for_response, or, when
\* send_message raised, to the except clause and back to the prompt
repl_after_send(answer) == IF answer = "ok" THEN "sent" ELSE "idle"

\* the envelope of a turn (the inputs, which repeat the configuration, left out)
Envelope(cid, turn_id, message) ==
    Obj({<<"interface_version", IntV(2)>>,
         <<"correlation_id", cid>>,
         <<"payload", Obj({<<"thread_id", thread_id>>,
                           <<"turn_id", turn_id>>,
                           <<"parent_turn_id", last_turn_id>>,
                           <<"payload", Obj({<<"message", message>>})>>})>>})

\* the operator submits a turn: repl_loop calls send_message
send_message(message, answer) ==
    /\ pc = "idle"
    /\ Len(posted) < MaxTurns
    /\ LET cid == Uuid(minted + 1)
           turn_id == Uuid(minted + 2)
       IN  /\ minted' = minted + 2
           /\ last_turn_id' = record_last_turn(turn_id, answer)
           /\ posted' = Append(posted, [envelope |-> Envelope(cid, turn_id, message),
                                        answer |-> answer])
           /\ pc' = repl_after_send(answer)
           /\ IF answer = "ok"
              THEN /\ correlation_id' = cid
                   /\ outcome' = NoOutcome
              ELSE /\ correlation_id' = None
                   /\ outcome' = Raised("httpx.HTTPError", cid, 0)
    /\ UNCHANGED <<config, cursor, log, since, poll_locals, history, thread_id>>

\* repl_loop waits for the response of the turn it has just sent
repl_wait ==
    /\ pc = "sent"
    /\ wait_for_response(correlation_id)

\* EOFError at the prompt: repl_loop breaks and main closes the transport
repl_eof ==
    /\ pc = "idle"
    /\ pc' = "closed"
    /\ UNCHANGED <<config, session, cursor, log, correlation_id, since, poll_locals,
                   outcome, history>>

\* the steps inside a wait_for_response call, against a gateway that answers
\* a snapshot request in one of the ways of `answers`
ClientSteps(answers) ==
    \/ \E answer \in {"ok", "http_status"} : tail_open(answer)
    \/ \E k \in 1..MaxLog : tail_event(k)
    \/ tail_end
    \/ tail_error
    \/ \E b \in TailBlocks : tail_block(b)
    \/ \E answer \in answers : poll_request(answer)
    \/ poll_scan_event
    \/ poll_page_done
    \/ poll_sleep
    \/ cancel

\* the steps of the client, waiting for the correlation ids of `cids`
Client(answers, cids) ==
    \/ \E answer \in answers : prime_offsets(answer)
    \/ \E cid \in cids : wait_for_response(cid)
    \/ ClientSteps(answers)

Next ==
    \/ \E e \in PollEvents(Len(log)) : GatewayAppend(e)
    \/ Client(SnapshotAnswers, CorrelationIds)

Spec == Init /\ [][Next]_vars

\* a gateway that never answers a snapshot request with a non-2xx status
\* other than 404: the scenarios that vary the events
SteadyAnswers == SnapshotAnswers \ {"http_status"}

NextIndex ==
    \/ \E e \in IndexEvents : GatewayAppend(e)
    \/ Client(SteadyAnswers, {Str("c1")})

\* a gateway that advertises both surfaces: the client tails or polls
InitBoth == Init /\ caps_tail /\ caps_snapshot

SpecIndex == InitBoth /\ [][NextIndex]_vars

NextMatch ==
    \/ \E e \in MatchEvents : GatewayAppend(e)
    \/ Client(SteadyAnswers, {Str("c1")})

SpecMatch == InitBoth /\ [][NextMatch]_vars

\* the events a gateway appends for the turns it took
AckedCids == {Get(posted[i].envelope, "correlation_id") :
                 i \in {j \in 1..Len(posted) : posted[j].answer = "ok"}}
SendEvents(position) ==
    { Event(IntV(position), c, kp[1], kp[2]) :
        c \in AckedCids, kp \in {ExecutionHi, IntentHi} }

\* main: prime_offsets, then repl_loop
NextSend ==
    \/ \E e \in SendEvents(Len(log)) : GatewayAppend(e)
    \/ \E answer \in SteadyAnswers : prime_offsets(answer)
    \/ \E message \in Messages, answer \in PostAnswers : send_message(message, answer)
    \/ repl_wait
    \/ repl_eof
    \/ ClientSteps(SteadyAnswers)

SpecSend == Init /\ [][NextSend]_vars

\* every delay is a whole number of ticks, and so is 1.5 times a delay
DelayExact == delay % 2 = 0
(***************************************************************************)
(* Properties.                                                             *)
(***************************************************************************)
IndexOf(e) == Get(e, "index")
CidOf(e) == Get(e, "correlation_id")
KindOf(e) == Get(e, "kind")
PayloadOf(e) == Get(e, "payload")
PrimeStep == \E answer \in SnapshotAnswers : prime_offsets(answer)
TailStates == {"tail_open", "tail"}
PollStates == {"poll_request", "poll_scan", "poll_sleep"}

\* max(previous last_index, event.index) for an integer index (a Python int,
\* which a bool is), the previous last_index otherwise
ExpectedLastIndex(current, e) ==
    IF IndexOf(e).t \in {"int", "bool"} THEN Max(current, IndexOf(e).n) ELSE current

\* C1: over the wait_for_response calls of one client, in tail mode and in
\* poll mode, last_index never decreases; each event processed leaves it at
\* max(previous last_index, event.index) when the index is an integer and
\* unchanged otherwise, and no other step of a call changes it.
C1_LastIndexMonotone ==
    [][ /\ ~PrimeStep => last_index' >= last_index
        /\ \A k \in 1..Len(log) :
              tail_event(k) => last_index' = ExpectedLastIndex(last_index, log[k])
        /\ poll_scan_event =>
              last_index' = ExpectedLastIndex(last_index, page[scanned + 1])
        /\ (~PrimeStep /\ ~poll_scan_event /\ ~(\E k \in 1..Len(log) : tail_event(k)))
              => last_index' = last_index
      ]_vars

\* a page whose second event carries a lower integer index than the first has
\* been walked, and last_index kept the higher one
C1_Witness ==
    /\ pc = "poll_scan"
    /\ scanned = 2
    /\ IsInt(IndexOf(page[2]))
    /\ IndexOf(page[2]).n < last_index
    /\ IndexOf(page[1]) = IntV(last_index)

\* C2: in poll mode each answered snapshot request is made at the current
\* offset and leaves offset at the requested offset plus the number of events
\* of the page (empty pages included); a failed request leaves offset
\* unchanged; no answered request carries a log position an earlier one carried.
C2_OffsetAdvance ==
    [][ /\ poll_request("ok") =>
              /\ requested' = offset
              /\ offset' = offset + Len(snapshot(offset, PollLimit).events)
              /\ positions(offset, snapshot(offset, PollLimit).events) \cap fetched = {}
        /\ \A answer \in SnapshotAnswers \ {"ok"} :
              poll_request(answer) => offset' = offset
        /\ (~PrimeStep /\ ~poll_request("ok")) => offset' = offset
      ]_vars

\* a second, non-empty page has been requested where the first one ended
C2_Witness ==
    /\ pc = "poll_scan"
    /\ requested > 0
    /\ offset > requested
    /\ fetched = 1..offset

\* C3: wait_for_response(cid) never returns text taken from an event whose
\* correlation_id differs from cid or is missing, whatever its kind and
\* payload; such an event only updates last_index, and the tail or poll loop
\* goes on with the next event.
C3_CorrelationExact ==
    [][ /\ (outcome'.kind = "return" /\ outcome'.value # None)
              => CidOf(outcome'.event) = outcome'.cid
        /\ \A k \in 1..Len(log) :
              (tail_event(k) /\ CidOf(log[k]) # correlation_id) =>
                  /\ pc' = "tail"
                  /\ <<offset, correlation_id, outcome>>' = <<offset, correlation_id, outcome>>
        /\ (poll_scan_event /\ CidOf(page[scanned + 1]) # correlation_id) =>
                  /\ pc' = "poll_scan"
                  /\ scanned' = scanned + 1
                  /\ <<offset, correlation_id, outcome>>' = <<offset, correlation_id, outcome>>
      ]_vars

\* the poll loop has passed an EXECUTION event with output text that carries
\* another correlation id
C3_Witness ==
    /\ pc = "poll_scan"
    /\ scanned >= 1
    /\ CidOf(page[scanned]) \in CorrelationIds \ {correlation_id}
    /\ KindOf(page[scanned]) = Str("EXECUTION")
    /\ IsDict(PayloadOf(page[scanned]))
    /\ last_index = 0

\* C4: wait_for_response tails iff the configuration prefers streaming and
\* the capabilities advertise "tail"; otherwise it polls iff they advertise
\* "snapshot"; otherwise it raises "no supported read surface" at once, with
\* no request made and the cursor unchanged.  The configuration never
\* changes, so every call of one client takes the same mode.
C4_ModeSelection ==
    [][ /\ \A cid \in CorrelationIds : wait_for_response(cid) =>
              /\ (stream /\ caps_tail) => pc' = "tail_open"
              /\ (~(stream /\ caps_tail) /\ caps_snapshot) => pc' = "poll_request"
              /\ (~(stream /\ caps_tail) /\ ~caps_snapshot) =>
                    /\ pc' = "idle"
                    /\ outcome' = Raised("no supported read surface", cid, 0)
                    /\ <<offset, last_index, fetched>>' = <<offset, last_index, fetched>>
        /\ pc' \in TailStates => (stream /\ caps_tail)
        /\ pc' \in PollStates => (~(stream /\ caps_tail) /\ caps_snapshot)
        /\ config' = config
      ]_vars

\* a call has failed for want of a read surface although the gateway holds events
C4_Witness ==
    /\ outcome.kind = "raise"
    /\ outcome.value = Str("no supported read surface")
    /\ log # <<>>
    /\ fetched = {}

\* C5: in poll mode a 404 answer to a snapshot request ends the call at once
\* with "snapshot not supported", whatever the failure counter holds: no
\* sleep, no further request, offset and last_index unchanged.
C5_NotFoundFatal ==
    [][ poll_request("http_404") =>
            /\ pc' = "idle"
            /\ outcome' = Raised("snapshot not supported", correlation_id, failed_run)
            /\ <<offset, last_index, fetched>>' = <<offset, last_index, fetched>>
      ]_vars

\* the 404 came after requests that had failed and been retried
C5_Witness ==
    /\ outcome.kind = "raise"
    /\ outcome.value = Str("snapshot not supported")
    /\ outcome.failed = MaxFailures - 1
\* a snapshot request that fails without a 404: a non-2xx status or no answer
Failing == {"http_status", "transport_error"}

\* C6: in poll mode every snapshot error that is not a 404 (a non-2xx status,
\* and also a connection failure or a request timeout) is recovered locally:
\* the failure counter goes up by one, the call sleeps and retries, and
\* nothing is raised before the 5th failure in a row.
C6_FailuresRecovered ==
    [][ \A answer \in Failing :
          (poll_request(answer) /\ failed_run + 1 < MaxFailures) =>
              /\ pc' = "poll_sleep"
              /\ failures' = failures + 1
              /\ outcome' = outcome
      ]_vars

\* C7: within one poll-mode call "polling failed" is raised exactly when 5
\* failed (non-404) snapshot requests occur with no answered request between
\* them: the counter starts at zero on each call, every page without a match
\* resets it, and the 5th failure raises with no further request or sleep.
C7_ExhaustedExactly ==
    [][ /\ \A answer \in SnapshotAnswers :
              poll_request(answer) =>
                 ( (outcome'.kind = "raise" /\ outcome'.value = Str("polling failed"))
                   <=> (answer \in Failing /\ failed_run + 1 = MaxFailures) )
        /\ (outcome'.kind = "raise" /\ outcome'.value = Str("polling failed"))
              => (pc' = "idle" /\ outcome'.failed = MaxFailures)
        /\ poll_page_done => failures' = 0
        /\ (\E cid \in CorrelationIds : wait_for_response(cid)) => failures' = 0
        /\ pc' \in PollStates => failed_run' < MaxFailures
      ]_vars

\* C8: within one poll-mode call (initial delay 0.5 s) a page without a match
\* makes the delay strictly greater (factor 1.5) from any delay the call can
\* hold, until it reaches the 5 s ceiling, where it stays; a failing poll
\* makes the delay strictly greater (factor 2) until it reaches the 15 s
\* ceiling; the 5th failing poll in a row raises "polling failed".
C8_BackoffMonotone ==
    [][ /\ (\E cid \in CorrelationIds : wait_for_response(cid) /\ pc' = "poll_request")
              => delay' = InitialDelay
        /\ poll_page_done =>
              /\ delay' >= delay
              /\ delay < NoMatchCeiling =>
                    (delay' > delay /\ delay' = Min((3 * delay) \div 2, NoMatchCeiling))
              /\ delay = NoMatchCeiling => delay' = NoMatchCeiling
        /\ \A answer \in Failing :
              poll_request(answer) =>
                 IF failed_run + 1 >= MaxFailures
                 THEN outcome'.kind = "raise" /\ outcome'.value = Str("polling failed")
                 ELSE /\ pc' = "poll_sleep"
                      /\ delay < FailureCeiling =>
                            (delay' > delay /\ delay' = Min(2 * delay, FailureCeiling))
                      /\ delay = FailureCeiling => delay' = FailureCeiling
      ]_vars

\* the text the claim gives an EXECUTION event: output_text, else the text of
\* the output/result object, else the formatted error, else the sentinel
ClaimedExecutionText(payload) ==
    LET field(k) == IF IsDict(payload) THEN Get(payload, k) ELSE None
        alt == IF Truthy(field("output")) THEN field("output") ELSE field("result")
    IN  IF IsStr(field("output_text")) /\ Strip(field("output_text").s) # ""
        THEN field("output_text")
        ELSE IF IsDict(alt) /\ IsStr(Get(alt, "text")) /\ Strip(Get(alt, "text").s) # ""
        THEN Get(alt, "text")
        ELSE IF IsDict(field("error"))
        THEN Fmt(<<Str("(execution_error) "), GetOr(field("error"), "code", Str("error")),
                   Str(": "), GetOr(field("error"), "message", Str(""))>>)
        ELSE Str("(execution) no output_text")

ExecutionEnds(e) ==
    (CidOf(e) = correlation_id /\ KindOf(e) = Str("EXECUTION")) =>
        /\ pc' = "idle"
        /\ outcome' = Returned(ClaimedExecutionText(PayloadOf(e)), correlation_id, e)

\* C9: every EXECUTION event whose correlation_id is the target ends the
\* wait, whatever its payload, with the text chosen by precedence:
\* output_text, else the text of the output/result object, else
\* "(execution_error) <code>: <message>", else "(execution) no output_text".
C9_ExecutionTerminal ==
    [][ /\ \A k \in 1..Len(log) : tail_event(k) => ExecutionEnds(log[k])
        /\ poll_scan_event => ExecutionEnds(page[scanned + 1])
      ]_vars

IsDeny(e) ==
    /\ KindOf(e) = Str("DECISION")
    /\ IsDict(PayloadOf(e))
    /\ Get(PayloadOf(e), "decision") = Str("DENY")

DecisionStep(e) ==
    /\ (CidOf(e) = correlation_id /\ IsDeny(e)) =>
          /\ pc' = "idle"
          /\ outcome' = Returned(Fmt(<<Str("decision: "), PayloadOf(e)>>), correlation_id, e)
    /\ ((KindOf(e) = Str("DECISION") /\ ~IsDeny(e))
          \/ KindOf(e) \notin {Str("EXECUTION"), Str("DECISION")}) =>
          /\ pc' = pc
          /\ outcome' = outcome
          /\ correlation_id' = correlation_id
          /\ pc = "poll_scan" => scanned' = scanned + 1

\* C10: a DECISION event for the target correlation id whose decision is
\* DENY is returned as "decision: <payload>" and ends the wait; a DECISION
\* event with another decision, and an event of a kind other than EXECUTION
\* and DECISION, is not returned: the loop goes on with the next event.
C10_DecisionDeny ==
    [][ /\ \A k \in 1..Len(log) : tail_event(k) => DecisionStep(log[k])
        /\ poll_scan_event => DecisionStep(page[scanned + 1])
      ]_vars

\* one page held an ALLOW decision and then a DENY decision for the target:
\* the call passed the first and returned the second
C10_Witness ==
    /\ outcome.kind = "return"
    /\ Len(log) = 2
    /\ fetched = {1, 2}
    /\ offset = 2
    /\ outcome.event = log[2]
    /\ outcome.value = Fmt(<<Str("decision: "), PayloadOf(log[2])>>)
    /\ CidOf(log[1]) = outcome.cid
    /\ KindOf(log[1]) = Str("DECISION")
    /\ Get(PayloadOf(log[1]), "decision") = Str("ALLOW")
\* a call given this event would return on it
Matches(e, cid) == extract_response(e, cid) # None

\* C11: a wait_for_response call that is cancelled, or that returns None,
\* can be resumed: a second call for the same correlation id still reaches
\* the result the uninterrupted call would have returned. So when a call
\* stops that way, no matching event it had been handed but had not tested
\* lies at or below the cursor the second call starts from: in poll mode
\* none in the unscanned rest of the page below offset, in tail mode none
\* that was above since and is not above last_index.
C11_Resumable ==
    [][ /\ (cancel /\ pc = "poll_scan") =>
              \A p \in (requested + scanned + 1)..offset :
                  ~Matches(log[p], correlation_id)
        /\ ((cancel \/ tail_end) /\ pc = "tail") =>
              \A p \in 1..Len(log) :
                  (Matches(log[p], correlation_id) /\ tail_delivers(log[p], since))
                      => tail_delivers(log[p], last_index)
      ]_vars

\* C12: wherever a poll-mode call stops with a page in hand (interrupted,
\* or returning on a match), every event at a log position below offset has
\* gone through the for loop: it was tested against the matcher and its
\* index is folded into last_index.
C12_CursorIntegrity ==
    [][ (pc = "poll_scan" /\ pc' = "idle") =>
            LET done == IF poll_scan_event THEN scanned + 1 ELSE scanned
            IN  \A p \in (requested + 1)..offset' :
                    /\ p <= requested + done
                    /\ IsInt(IndexOf(log[p])) => last_index' >= IndexOf(log[p]).n
      ]_vars

\* C18: a read timeout on a stalled tail stream makes the call open a new
\* tail request from the current last_index; the call does not end.
C18_TimeoutReconnects ==
    [][ tail_error =>
            /\ pc' = "tail_open"
            /\ since' = last_index
            /\ correlation_id' = correlation_id
            /\ outcome' = outcome
      ]_vars

\* C20: prime_offsets on a gateway that advertises snapshot leaves offset at
\* the reported log length and last_index at the index of the newest event
\* of the log, so that the first call is handed nothing the log already
\* held; without the snapshot surface it asks nothing of the gateway and
\* leaves offset 0 and last_index -1.
C20_PrimeSkipsHistory ==
    [][ /\ (PrimeStep /\ caps_snapshot /\ pc' = "idle") =>
              /\ offset' = Len(log)
              /\ (log # <<>> /\ IsInt(IndexOf(log[Len(log)]))) =>
                     last_index' = IndexOf(log[Len(log)]).n
              /\ \A p \in 1..Len(log) : ~tail_delivers(log[p], Max(last_index', -1))
        /\ (PrimeStep /\ ~caps_snapshot) =>
              /\ offset' = 0
              /\ last_index' = -1
              /\ fetched' = fetched
              /\ pc' = "idle"
      ]_vars
\* the terminal events of a correlation id: its EXECUTION events and its
\* DECISION events that deny
IsTerminal(e, cid) ==
    /\ CidOf(e) = cid
    /\ KindOf(e) = Str("EXECUTION") \/ IsDeny(e)

\* C13: no log event is returned as a match by two calls of one client. A
\* call returns on a log position no earlier call returned on; a snapshot
\* request carries no position a call returned on; and a tail request asks
\* for the indices above last_index, which is at least the index of every
\* event already returned.
C13_NoDoubleDelivery ==
    [][ /\ \A k \in 1..Len(log) :
              (tail_event(k) /\ outcome'.kind = "return") => k \notin returned
        /\ (poll_scan_event /\ outcome'.kind = "return") =>
              (requested + scanned + 1) \notin returned
        /\ poll_request("ok") =>
              positions(offset, snapshot(offset, PollLimit).events) \cap returned = {}
        /\ (pc' = "tail_open" /\ pc # "tail_open") =>
              /\ since' = last_index
              /\ \A p \in returned :
                     IsInt(IndexOf(log[p])) => since' >= IndexOf(log[p]).n
      ]_vars

\* C13, for the events that carry an integer index: no such log event is
\* returned as a match by two calls of one client. A tail-mode call returns
\* on no integer-indexed log position an earlier call returned on, a
\* poll-mode call on no position an earlier call returned on; a snapshot
\* request carries no position a call returned on; and a tail request asks
\* for the indices above last_index, which is at least every integer index
\* already returned. (An event without an integer index leaves last_index
\* where it is, and a later stream can hand it to a second call.)
C13_NoDoubleDeliveryIndexed ==
    [][ /\ \A k \in 1..Len(log) :
              (tail_event(k) /\ outcome'.kind = "return" /\ IsInt(IndexOf(log[k])))
                  => k \notin returned
        /\ (poll_scan_event /\ outcome'.kind = "return") =>
              (requested + scanned + 1) \notin returned
        /\ poll_request("ok") =>
              positions(offset, snapshot(offset, PollLimit).events) \cap returned = {}
        /\ (pc' = "tail_open" /\ pc # "tail_open") =>
              /\ since' = last_index
              /\ \A p \in returned :
                     IsInt(IndexOf(log[p])) => since' >= IndexOf(log[p]).n
      ]_vars

\* tail mode: a call returned on the first event of the log, and a second
\* call for the same correlation id, on a new stream, was handed and
\* returned the second event only
C13_Witness ==
    /\ select_mode = "tail"
    /\ returned = {1, 2}
    /\ outcome.kind = "return"
    /\ outcome.event = log[2]
    /\ CidOf(log[1]) = outcome.cid
    /\ IndexOf(log[1]) = IntV(0)
    /\ IndexOf(log[2]) = IntV(1)
    /\ last_index = 1

\* C14: a tail-mode call opens one stream, with since = last_index as it is
\* when the call begins; each event that arrives is folded into last_index
\* and then tested; the call returns on the first terminal event of the
\* target correlation id and takes no event after it; it returns None when
\* the stream ends, and only then; it never changes offset.
C14_TailCall ==
    [][ /\ (pc' = "tail_open" /\ pc # "tail_open") =>
              /\ pc \notin InCall
              /\ since' = last_index
        /\ (pc \in TailStates /\ pc' \in InCall) =>
              /\ pc' \in TailStates
              /\ pc = "tail" => pc' = "tail"
              /\ since' = since
              /\ correlation_id' = correlation_id
        /\ pc \in TailStates => offset' = offset
        /\ \A k \in 1..Len(log) : tail_event(k) =>
              /\ last_index' = ExpectedLastIndex(last_index, log[k])
              /\ IF IsTerminal(log[k], correlation_id)
                 THEN /\ pc' = "idle"
                      /\ outcome'.kind = "return"
                      /\ outcome'.value # None
                      /\ outcome'.event = log[k]
                 ELSE /\ pc' = "tail"
                      /\ outcome' = outcome
        /\ tail_end => outcome' = Returned(None, correlation_id, None)
        /\ (pc = "tail" /\ outcome'.kind = "return" /\ outcome'.value = None)
              => tail_end
      ]_vars

\* C15: a poll-mode call whose snapshot requests never fail 5 times in a row
\* and never with 404 goes on until it returns, and it returns the text of
\* the first terminal event of the target correlation id at a log position
\* at or after the offset the call began with.
C15_PollReturnsFirst ==
    [][ /\ \A answer \in SnapshotAnswers :
              (poll_request(answer) /\ answer # "http_404"
                   /\ failed_run + 1 < MaxFailures) => pc' \in PollStates
        /\ (pc \in PollStates /\ outcome'.kind = "raise") =>
              outcome'.value \in {Str("polling failed"), Str("snapshot not supported")}
        /\ poll_scan_event =>
              LET e == page[scanned + 1]
              IN  IF IsTerminal(e, correlation_id)
                  THEN /\ outcome' = Returned(extract_response(e, correlation_id),
                                              correlation_id, e)
                       /\ outcome'.value # None
                       /\ \A p \in (call_offset + 1)..(requested + scanned) :
                              ~IsTerminal(log[p], correlation_id)
                  ELSE pc' = "poll_scan"
      ]_vars

\* C19: a block of the tail stream whose data lines are not one JSON object
\* (text that is not JSON, or JSON of another type) is skipped: the call
\* goes on with the next block and nothing of the client changes.
C19_MalformedSkipped ==
    [][ \A b \in TailBlocks : tail_block(b) =>
            /\ pc' = "tail"
            /\ outcome' = outcome
            /\ correlation_id' = correlation_id
            /\ since' = since
            /\ cursor' = cursor
      ]_vars
\* the fields of the i-th envelope handed to post_intent
EnvelopeOf(i) == posted[i].envelope
TurnOf(i) == Get(EnvelopeOf(i), "payload")
PostedCid(i) == Get(EnvelopeOf(i), "correlation_id")
PostedTurnId(i) == Get(TurnOf(i), "turn_id")
PostedParent(i) == Get(TurnOf(i), "parent_turn_id")
PostedThread(i) == Get(TurnOf(i), "thread_id")
SendStep(answer) == \E message \in Messages : send_message(message, answer)

\* C16: over the send_message calls of one client, accepted or rejected by
\* the gateway, the first envelope carries no parent_turn_id and every later
\* envelope carries the turn_id of the call just before it; every envelope
\* carries the same thread_id; the correlation ids and the turn ids of all
\* calls are pairwise different, and different from each other.
C16_TurnChain ==
    LET n == Len(posted)
    IN  /\ n >= 1 => PostedParent(1) = None
        /\ \A i \in 2..n : PostedParent(i) = PostedTurnId(i - 1)
        /\ \A i \in 1..n : PostedThread(i) = thread_id
        /\ \A i \in 1..n :
              /\ IsStr(PostedCid(i))
              /\ IsStr(PostedTurnId(i))
              /\ PostedCid(i) # PostedTurnId(i)
              /\ thread_id \notin {PostedCid(i), PostedTurnId(i)}
        /\ \A i, j \in 1..n :
              i # j => /\ PostedCid(i) # PostedCid(j)
                       /\ PostedTurnId(i) # PostedTurnId(j)
                       /\ PostedCid(i) # PostedTurnId(j)
        /\ last_turn_id = IF n = 0 THEN None ELSE PostedTurnId(n)

\* the gateway rejected the first turn, and the second turn names it as its
\* parent
C16_Witness ==
    /\ Len(posted) = 2
    /\ posted[1].answer = "http_status"
    /\ posted[2].answer = "ok"
    /\ PostedParent(2) = PostedTurnId(1)
    /\ PostedParent(2) # None

\* C17: send_message hands the envelope to the transport once. When the
\* gateway does not accept it, the failure reaches repl_loop, which starts
\* no wait for that turn, shows the error, posts nothing again and is back
\* at the prompt with the session open; the cursors are untouched. A wait
\* begins only for the turn the gateway has just accepted, and an envelope
\* is posted only by a send_message call made from the prompt.
C17_RejectedSurfaced ==
    [][ /\ \A answer \in PostAnswers : SendStep(answer) =>
              /\ Len(posted') = Len(posted) + 1
              /\ SubSeq(posted', 1, Len(posted)) = posted
              /\ answer # "ok" =>
                     /\ pc' = "idle"
                     /\ outcome'.kind = "raise"
                     /\ outcome'.cid = Get(posted'[Len(posted')].envelope, "correlation_id")
                     /\ correlation_id' = None
                     /\ cursor' = cursor
        /\ posted' # posted =>
              /\ pc = "idle"
              /\ \E answer \in PostAnswers : SendStep(answer)
        /\ (pc \notin InCall /\ pc' \in InCall) =>
              /\ pc = "sent"
              /\ posted' = posted
              /\ posted[Len(posted)].answer = "ok"
              /\ correlation_id' = PostedCid(Len(posted))
        /\ pc' = "closed" => pc \in {"start", "idle", "closed"}
      ]_vars

\* the first turn was rejected; the operator sent a second one, the gateway
\* accepted it, and the wait for it, the only wait of the session so far,
\* is in progress
C17_Witness ==
    /\ Len(posted) = 2
    /\ posted[1].answer # "ok"
    /\ posted[2].answer = "ok"
    /\ pc \in InCall
    /\ correlation_id = PostedCid(2)
    /\ outcome = NoOutcome
====
